---- MODULE Spec2Model ----
(***************************************************************************)
(* Model of the starknet JSON-RPC code generator (src/src/main.rs).        *)
(*                                                                         *)
(* Rust strings are sequences of one-character strings, Option<T> is a     *)
(* sequence of length 0 (None) or 1 (Some), Result is a record with a      *)
(* status field.  The text functions are operators over character          *)
(* sequences; resolve_types is a state machine that performs one loop      *)
(* iteration per step.                                                     *)
(***************************************************************************)
EXTENDS Naturals, Sequences, FiniteSets

VARIABLES
    pc,      \* position of the program: "idle", "loop", "returned", "crashed", "called", "text"
    specs,   \* specs.components.schemas: insertion-ordered map, a sequence of [name, schema]
    idx,     \* 1-based position of the iterator of resolve_types' for loop
    types,   \* the local vector `types` of resolve_types
    result,  \* return value of resolve_types: None, or Some(Ok(types) / Err)
    call,    \* a direct call of flatten_schema_fields: None, or Some([schema, fields, result])
    arg,     \* argument of a direct call of one of the text functions
    ret      \* the values that call (and its re-application) returned

vars == <<pc, specs, idx, types, result, call, arg, ret>>

--------------------------------------------------------------------------------
(* Bounds of the model. *)

\* longest name drawn for to_starknet_rs_name
MaxNameLen ==
    4

\* longest text drawn for to_sentence_case
MaxDocLen ==
    4

\* most words in a text drawn for wrap_lines
MaxWords ==
    3

\* most schemas in components.schemas
MaxSchemas ==
    2

\* number of nested flatten_schema_fields frames the stack holds
MaxDepth ==
    12

--------------------------------------------------------------------------------
(* Option and string helpers. *)

None ==
    <<>>

Some(v) ==
    <<v>>

IsSome(o) ==
    Len(o) = 1

Unwrap(o) ==
    o[1]

\* `let r = v;` followed by F(r): v is evaluated once
Let(v, F(_)) ==
    CHOOSE out \in {F(r) : r \in {v}} : TRUE

LOWER ==
    <<"a", "b", "c", "d", "e", "f", "g", "h", "i", "j", "k", "l", "m",
      "n", "o", "p", "q", "r", "s", "t", "u", "v", "w", "x", "y", "z">>

UPPER ==
    <<"A", "B", "C", "D", "E", "F", "G", "H", "I", "J", "K", "L", "M",
      "N", "O", "P", "Q", "R", "S", "T", "U", "V", "W", "X", "Y", "Z">>

\* char::to_ascii_uppercase
to_ascii_uppercase(c) ==
    IF \E i \in 1..26 : LOWER[i] = c
    THEN UPPER[CHOOSE i \in 1..26 : LOWER[i] = c]
    ELSE c

\* char::to_ascii_lowercase
to_ascii_lowercase(c) ==
    IF \E i \in 1..26 : UPPER[i] = c
    THEN LOWER[CHOOSE i \in 1..26 : UPPER[i] = c]
    ELSE c

\* str::replace: every non-overlapping match of `from`, left to right
RECURSIVE Replace(_, _, _)
Replace(s, from, to) ==
    IF Len(s) < Len(from) THEN s
    ELSE IF SubSeq(s, 1, Len(from)) = from
         THEN to \o Replace(SubSeq(s, Len(from) + 1, Len(s)), from, to)
         ELSE <<Head(s)>> \o Replace(Tail(s), from, to)

\* str::ends_with(char)
EndsWith(s, c) ==
    Len(s) > 0 /\ s[Len(s)] = c

\* positions of the spaces of s
SpacesOf(s) ==
    {i \in 1..Len(s) : s[i] = " "}

\* position of the k-th space of s; 0 for k = 0, Len(s) + 1 past the last one
SpaceAt(s, k) ==
    IF k = 0 THEN 0
    ELSE IF k > Cardinality(SpacesOf(s)) THEN Len(s) + 1
    ELSE CHOOSE i \in SpacesOf(s) : Cardinality({j \in SpacesOf(s) : j < i}) = k - 1

\* str::split(' '): the parts between single spaces, at least one part
Split(s) ==
    [k \in 1..(Cardinality(SpacesOf(s)) + 1) |->
        SubSeq(s, SpaceAt(s, k - 1) + 1, SpaceAt(s, k) - 1)]

--------------------------------------------------------------------------------
(* String literals of the program. *)

S_Txn ==
    <<"T", "x", "n">>

S_Transaction ==
    <<"T", "r", "a", "n", "s", "a", "c", "t", "i", "o", "n">>

S_starknet ==
    <<"s", "t", "a", "r", "k", "n", "e", "t">>

S_Starknet ==
    <<"S", "t", "a", "r", "k", "n", "e", "t">>

S_StarkNet ==
    <<"S", "t", "a", "r", "k", "N", "e", "t">>

S_StarkNet_io ==
    <<"S", "t", "a", "r", "k", "N", "e", "t", ".", "i", "o">>

S_starknet_io ==
    <<"s", "t", "a", "r", "k", "n", "e", "t", ".", "i", "o">>

MAX_LINE_LENGTH ==
    100

--------------------------------------------------------------------------------
(* Naming and documentation normalizers. *)

\* the loop of to_pascal_case; ind is 0-based as in the code
RECURSIVE PascalLoop(_, _, _, _)
PascalLoop(name, ind, last_underscore, acc) ==
    IF ind >= Len(name) THEN acc
    ELSE LET character == name[ind + 1]
             uppercase == IF IsSome(last_underscore)
                          THEN ind = Unwrap(last_underscore) + 1
                          ELSE ind = 0
         IN  IF character = "_"
             THEN PascalLoop(name, ind + 1, Some(ind), acc)
             ELSE PascalLoop(name, ind + 1, last_underscore,
                             Append(acc, IF uppercase
                                         THEN to_ascii_uppercase(character)
                                         ELSE to_ascii_lowercase(character)))

to_pascal_case(name) ==
    PascalLoop(name, 0, None, <<>>)

\* variant: the Txn rewriting left out
to_starknet_rs_name_NoTxn(name) ==
    to_pascal_case(name)

to_starknet_rs_name(name) ==
    Let(to_pascal_case(name), LAMBDA pascal : Replace(pascal, S_Txn, S_Transaction))

\* the loop of to_sentence_case; ind is 0-based as in the code
RECURSIVE SentenceLoop(_, _, _, _, _)
\* variant: the character two places after a period is capitalised whatever
\* precedes it
SentenceLoop_NoSpaceCheck(name, ind, last_period, last_char, acc) ==
    IF ind >= Len(name) THEN acc
    ELSE LET character == name[ind + 1]
             lp == IF character = "." THEN Some(ind) ELSE last_period
             uppercase == IF IsSome(lp) THEN ind = Unwrap(lp) + 2 ELSE ind = 0
         IN  SentenceLoop(name, ind + 1, lp, Some(character),
                          Append(acc, IF uppercase
                                      THEN to_ascii_uppercase(character)
                                      ELSE to_ascii_lowercase(character)))

SentenceLoop(name, ind, last_period, last_char, acc) ==
    IF ind >= Len(name) THEN acc
    ELSE LET character == name[ind + 1]
             lp == IF character = "." THEN Some(ind) ELSE last_period
             uppercase == IF IsSome(lp)
                          THEN ind = Unwrap(lp) + 2 /\ last_char = Some(" ")
                          ELSE ind = 0
         IN  SentenceLoop(name, ind + 1, lp, Some(character),
                          Append(acc, IF uppercase
                                      THEN to_ascii_uppercase(character)
                                      ELSE to_ascii_lowercase(character)))

to_sentence_case(name) ==
    SentenceLoop(name, 0, None, None, <<>>)

to_starknet_rs_doc(doc, force_period) ==
    Let(to_sentence_case(doc), LAMBDA d0 :
    Let(Replace(d0, S_starknet, S_StarkNet), LAMBDA d1 :
    Let(Replace(d1, S_Starknet, S_StarkNet), LAMBDA d2 :
    Let(Replace(d2, S_StarkNet_io, S_starknet_io), LAMBDA d :
        IF force_period /\ ~EndsWith(d, ".") THEN Append(d, ".") ELSE d))))

\* the loop of wrap_lines over the parts of doc.split(' ')
RECURSIVE WrapLoop(_, _, _, _)
\* variant: the joining space is not counted
WrapLoop_NoSpace(parts, prefix_length, lines, current_line) ==
    IF parts = <<>> THEN Append(lines, current_line)
    ELSE LET part == Head(parts)
             addition == (IF current_line # <<>> THEN <<" ">> ELSE <<>>) \o part
         IN  IF prefix_length + Len(current_line) + Len(part) <= MAX_LINE_LENGTH
             THEN WrapLoop(Tail(parts), prefix_length, lines, current_line \o addition)
             ELSE WrapLoop(Tail(parts), prefix_length, Append(lines, current_line), part)

WrapLoop(parts, prefix_length, lines, current_line) ==
    IF parts = <<>> THEN Append(lines, current_line)
    ELSE LET part == Head(parts)
             addition == (IF current_line # <<>> THEN <<" ">> ELSE <<>>) \o part
         IN  IF prefix_length + Len(current_line) + Len(addition) <= MAX_LINE_LENGTH
             THEN WrapLoop(Tail(parts), prefix_length, lines, current_line \o addition)
             ELSE WrapLoop(Tail(parts), prefix_length, Append(lines, current_line), part)

wrap_lines(doc, prefix_length) ==
    Let(Split(doc), LAMBDA parts : WrapLoop(parts, prefix_length, <<>>, <<>>))

--------------------------------------------------------------------------------
(* Names and type expressions of the override table and of the field types. *)

N_ADDRESS ==
    <<"A", "D", "D", "R", "E", "S", "S">>

N_STORAGE_KEY ==
    <<"S", "T", "O", "R", "A", "G", "E", "_", "K", "E", "Y">>

N_TXN_HASH ==
    <<"T", "X", "N", "_", "H", "A", "S", "H">>

N_FELT ==
    <<"F", "E", "L", "T">>

N_BLOCK_HASH ==
    <<"B", "L", "O", "C", "K", "_", "H", "A", "S", "H">>

N_CHAIN_ID ==
    <<"C", "H", "A", "I", "N", "_", "I", "D">>

N_PROTOCOL_VERSION ==
    <<"P", "R", "O", "T", "O", "C", "O", "L", "_", "V", "E", "R", "S", "I", "O", "N">>

N_BLOCK_NUMBER ==
    <<"B", "L", "O", "C", "K", "_", "N", "U", "M", "B", "E", "R">>

N_NUM_AS_HEX ==
    <<"N", "U", "M", "_", "A", "S", "_", "H", "E", "X">>

N_ETH_ADDRESS ==
    <<"E", "T", "H", "_", "A", "D", "D", "R", "E", "S", "S">>

N_SIGNATURE ==
    <<"S", "I", "G", "N", "A", "T", "U", "R", "E">>

N_CONTRACT_ABI ==
    <<"C", "O", "N", "T", "R", "A", "C", "T", "_", "A", "B", "I">>

N_CONTRACT_ENTRY_POINT_LIST ==
    <<"C", "O", "N", "T", "R", "A", "C", "T", "_", "E", "N", "T", "R", "Y", "_", "P", "O", "I", "N", "T", "_", "L", "I", "S", "T">>

T_FieldElement ==
    <<"F", "i", "e", "l", "d", "E", "l", "e", "m", "e", "n", "t">>

T_UfeHex ==
    <<"U", "f", "e", "H", "e", "x">>

T_u64 ==
    <<"u", "6", "4">>

T_NumAsHex ==
    <<"N", "u", "m", "A", "s", "H", "e", "x">>

T_EthAddress ==
    <<"E", "t", "h", "A", "d", "d", "r", "e", "s", "s">>

T_VecFieldElement ==
    <<"V", "e", "c", "<", "F", "i", "e", "l", "d", "E", "l", "e", "m", "e", "n", "t", ">">>

T_VecUfeHex ==
    <<"V", "e", "c", "<", "U", "f", "e", "H", "e", "x", ">">>

T_VecContractAbiEntry ==
    <<"V", "e", "c", "<", "C", "o", "n", "t", "r", "a", "c", "t", "A", "b", "i", "E", "n", "t", "r", "y", ">">>

T_VecContractEntryPoint ==
    <<"V", "e", "c", "<", "C", "o", "n", "t", "r", "a", "c", "t", "E", "n", "t", "r", "y", "P", "o", "i", "n", "t", ">">>

T_bool ==
    <<"b", "o", "o", "l">>

T_String ==
    <<"S", "t", "r", "i", "n", "g">>

T_VecOpen ==
    <<"V", "e", "c", "<">>

T_VecClose ==
    <<">">>

--------------------------------------------------------------------------------
(* Schema model (crate::spec): the variants of Schema and their accessors. *)

Ref(n) ==
    [kind |-> "Ref", name |-> n]

OneOf(members) ==
    [kind |-> "OneOf", one_of |-> members]

AllOf(members) ==
    [kind |-> "AllOf", all_of |-> members]

\* properties is an insertion-ordered map: a sequence of [name, schema]
Object(props) ==
    [kind |-> "Object", properties |-> props]

Array(item) ==
    [kind |-> "Array", items |-> item]

\* enum is None or Some(list of literals)
String(variants) ==
    [kind |-> "String", enum |-> variants]

Boolean ==
    [kind |-> "Boolean"]

Integer ==
    [kind |-> "Integer"]

Prop(n, s) ==
    [name |-> n, schema |-> s]

\* a schema node that carries documentation attributes
Documented(node, t, d, s) ==
    [f \in DOMAIN node \cup {"title", "description", "summary"} |->
        IF f = "title" THEN t
        ELSE IF f = "description" THEN d
        ELSE IF f = "summary" THEN s
        ELSE node[f]]

title(schema) ==
    IF "title" \in DOMAIN schema THEN schema.title ELSE None

description(schema) ==
    IF "description" \in DOMAIN schema THEN schema.description ELSE None

summary(schema) ==
    IF "summary" \in DOMAIN schema THEN schema.summary ELSE None

\* IndexMap::contains_key on components.schemas
ContainsKey(schemas, n) ==
    \E i \in 1..Len(schemas) : schemas[i].name = n

\* IndexMap::get on components.schemas (the key is present)
Get(schemas, n) ==
    schemas[CHOOSE i \in 1..Len(schemas) : schemas[i].name = n].schema

--------------------------------------------------------------------------------
(* Override table. *)

RustFieldType(t, s) ==
    [type_name |-> t, serde_as |-> s]

get_field_type_override(type_name) ==
    IF type_name \in {N_ADDRESS, N_STORAGE_KEY, N_TXN_HASH, N_FELT, N_BLOCK_HASH,
                      N_CHAIN_ID, N_PROTOCOL_VERSION}
    THEN Some(RustFieldType(T_FieldElement, Some(T_UfeHex)))
    ELSE IF type_name = N_BLOCK_NUMBER THEN Some(RustFieldType(T_u64, None))
    ELSE IF type_name = N_NUM_AS_HEX THEN Some(RustFieldType(T_u64, Some(T_NumAsHex)))
    ELSE IF type_name = N_ETH_ADDRESS THEN Some(RustFieldType(T_EthAddress, None))
    ELSE IF type_name = N_SIGNATURE
         THEN Some(RustFieldType(T_VecFieldElement, Some(T_VecUfeHex)))
    ELSE IF type_name = N_CONTRACT_ABI
         THEN Some(RustFieldType(T_VecContractAbiEntry, None))
    ELSE IF type_name = N_CONTRACT_ENTRY_POINT_LIST
         THEN Some(RustFieldType(T_VecContractEntryPoint, None))
    ELSE None

--------------------------------------------------------------------------------
(* Type resolution engine. *)

Ok(v) ==
    [ok |-> TRUE, value |-> v]

Err(msg) ==
    [ok |-> FALSE, error |-> msg]

\* format!("Vec<{}>", t)
VecOf(t) ==
    T_VecOpen \o t \o T_VecClose

\* variant: the override table is not consulted
FieldTypeOfRef_IgnoreOverride(ref_type_name, schemas) ==
    IF ~ContainsKey(schemas, ref_type_name)
    THEN Err("Ref target type not found")
    ELSE Ok(RustFieldType(to_starknet_rs_name(ref_type_name), None))

\* the Ref arm of get_rust_type_for_field
FieldTypeOfRef(ref_type_name, schemas) ==
    IF ~ContainsKey(schemas, ref_type_name)
    THEN Err("Ref target type not found")
    ELSE IF IsSome(get_field_type_override(ref_type_name))
         THEN Ok(Unwrap(get_field_type_override(ref_type_name)))
         ELSE Ok(RustFieldType(to_starknet_rs_name(ref_type_name), None))

\* the Array arm of get_rust_type_for_field, given the result for the items
FieldTypeOfArray(item_type) ==
    IF ~item_type.ok THEN item_type
    ELSE Ok(RustFieldType(VecOf(item_type.value.type_name),
                          IF IsSome(item_type.value.serde_as)
                          THEN Some(VecOf(Unwrap(item_type.value.serde_as)))
                          ELSE None))

RECURSIVE get_rust_type_for_field(_, _)
get_rust_type_for_field(schema, schemas) ==
    CASE schema.kind = "Ref" -> FieldTypeOfRef(schema.name, schemas)
      [] schema.kind = "OneOf" ->
            Err("Anonymous oneOf types should not be used for properties")
      [] schema.kind = "AllOf" ->
            Err("Anonymous allOf types should not be used for properties")
      [] schema.kind = "Array" ->
            Let(get_rust_type_for_field(schema.items, schemas),
                LAMBDA item_type : FieldTypeOfArray(item_type))
      [] schema.kind = "Boolean" -> Ok(RustFieldType(T_bool, None))
      [] schema.kind = "Integer" -> Ok(RustFieldType(T_u64, None))
      [] schema.kind = "Object" ->
            Err("Anonymous object types should not be used for properties")
      [] schema.kind = "String" -> Ok(RustFieldType(T_String, None))

\* the documentation line of a property: title, else description, else summary
FieldDoc(prop_value) ==
    IF IsSome(title(prop_value)) THEN title(prop_value)
    ELSE IF IsSome(description(prop_value)) THEN description(prop_value)
    ELSE summary(prop_value)

\* the RustField pushed for one property
RustField(name, prop_value, field_type) ==
    [description |-> IF IsSome(FieldDoc(prop_value))
                     THEN Some(to_starknet_rs_doc(Unwrap(FieldDoc(prop_value)), FALSE))
                     ELSE None,
     name |-> name,
     type_name |-> field_type.type_name,
     serde_as |-> field_type.serde_as]

\* outcome of a flatten_schema_fields call: "ok", "err" (an Err was returned; `fields`
\* is the accumulator as the call left it, partial pushes included) or "overflow"
\* (the recursion exhausted the stack and the process died: nothing is left)
Flat(st, fs) ==
    [status |-> st, fields |-> fs]

\* the Object arm of flatten_schema_fields: the loop over the properties from i on
RECURSIVE ObjectLoop(_, _, _, _)
ObjectLoop(props, i, schemas, fields) ==
    IF i > Len(props) THEN Flat("ok", fields)
    ELSE Let(get_rust_type_for_field(props[i].schema, schemas),
             LAMBDA field_type :
                IF ~field_type.ok THEN Flat("err", fields)
                ELSE ObjectLoop(props, i + 1, schemas,
                                Append(fields,
                                       RustField(props[i].name, props[i].schema,
                                                 field_type.value))))

\* flatten_schema_fields, called with stack_left free frames on the stack
RECURSIVE flatten_schema_fields(_, _, _, _)
RECURSIVE AllOfLoop(_, _, _, _, _)
\* variant: a member's field is dropped when an earlier member declared its name
AllOfLoop_Dedup(items, i, schemas, fields, stack_left) ==
    IF i > Len(items) THEN Flat("ok", fields)
    ELSE Let(flatten_schema_fields(items[i], schemas, fields, stack_left),
             LAMBDA r :
                IF r.status # "ok" THEN r
                ELSE LET declared == {fields[k].name : k \in 1..Len(fields)}
                         added == SubSeq(r.fields, Len(fields) + 1, Len(r.fields))
                         kept == fields \o SelectSeq(added,
                                                     LAMBDA f : f.name \notin declared)
                     IN  AllOfLoop(items, i + 1, schemas, kept, stack_left))

\* the AllOf arm: the loop over the members from i on
AllOfLoop(items, i, schemas, fields, stack_left) ==
    IF i > Len(items) THEN Flat("ok", fields)
    ELSE Let(flatten_schema_fields(items[i], schemas, fields, stack_left),
             LAMBDA r : IF r.status # "ok" THEN r
                        ELSE Let(i + 1, LAMBDA j :
                                 AllOfLoop(items, j, schemas, r.fields, stack_left)))

\* variant: a Ref to an overridden name contributes no fields
FlattenRef_Override(schema, schemas, fields, stack_left) ==
    IF ~ContainsKey(schemas, schema.name) THEN Flat("err", fields)
    ELSE IF IsSome(get_field_type_override(schema.name)) THEN Flat("ok", fields)
    ELSE Let(<<Get(schemas, schema.name), stack_left - 1>>,
             LAMBDA a : flatten_schema_fields(a[1], schemas, fields, a[2]))

\* the Ref arm: schema redirection
FlattenRef(schema, schemas, fields, stack_left) ==
    IF ~ContainsKey(schemas, schema.name) THEN Flat("err", fields)
    ELSE Let(<<Get(schemas, schema.name), stack_left - 1>>,
             LAMBDA a : flatten_schema_fields(a[1], schemas, fields, a[2]))

\* variant: a depth guard that turns the exhausted recursion into an error
flatten_schema_fields_Guarded(schema, schemas, fields, stack_left) ==
    IF stack_left = 0 THEN Flat("err", fields)
    ELSE CASE schema.kind = "Ref" -> FlattenRef(schema, schemas, fields, stack_left)
           [] schema.kind = "AllOf" ->
                Let(<<schema.all_of, stack_left - 1>>,
                    LAMBDA a : AllOfLoop(a[1], 1, schemas, fields, a[2]))
           [] schema.kind = "Object" ->
                ObjectLoop(schema.properties, 1, schemas, fields)
           [] OTHER -> Flat("err", fields)

flatten_schema_fields(schema, schemas, fields, stack_left) ==
    IF stack_left = 0 THEN Flat("overflow", <<>>)
    ELSE CASE schema.kind = "Ref" -> FlattenRef(schema, schemas, fields, stack_left)
           [] schema.kind = "AllOf" ->
                Let(<<schema.all_of, stack_left - 1>>,
                    LAMBDA a : AllOfLoop(a[1], 1, schemas, fields, a[2]))
           [] schema.kind = "Object" ->
                ObjectLoop(schema.properties, 1, schemas, fields)
           [] OTHER -> Flat("err", fields)

\* variant: the wire value is the converted identifier
RustVariants_Renamed(variants) ==
    [i \in 1..Len(variants) |->
        [description |-> None,
         name |-> to_starknet_rs_name(variants[i]),
         serde_name |-> to_starknet_rs_name(variants[i])]]

\* one RustVariant per literal of an enumerated string
RustVariants(variants) ==
    [i \in 1..Len(variants) |->
        [description |-> None,
         name |-> to_starknet_rs_name(variants[i]),
         serde_name |-> variants[i]]]

Wrapper(t) ==
    [kind |-> "Wrapper", type_name |-> t]

Struct(fs) ==
    [kind |-> "Struct", fields |-> fs]

Enum(vs) ==
    [kind |-> "Enum", variants |-> vs]

\* description of a top-level schema: description, else summary
TypeDescription(entity) ==
    IF IsSome(description(entity)) THEN description(entity) ELSE summary(entity)

\* the RustType pushed for schema `name` once its content is known
RustType(name, entity, content) ==
    [title |-> IF IsSome(title(entity))
               THEN Some(to_starknet_rs_doc(Unwrap(title(entity)), TRUE))
               ELSE None,
     description |-> IF IsSome(TypeDescription(entity))
                     THEN Some(to_starknet_rs_doc(Unwrap(TypeDescription(entity)), TRUE))
                     ELSE None,
     name |-> to_starknet_rs_name(name),
     content |-> content]

--------------------------------------------------------------------------------
(* The specifications the runs start from. *)

K_BASE ==
    <<"B", "A", "S", "E">>

K_TXN ==
    <<"T", "X", "N">>

K_FOO ==
    <<"F", "O", "O">>

F_x ==
    <<"x">>

F_extra ==
    <<"e", "x", "t", "r", "a">>

L_a ==
    <<"a">>

L_b ==
    <<"b">>

L_txn_hash ==
    <<"t", "x", "n", "_", "h", "a", "s", "h">>

D_base ==
    <<"b", "a", "s", "e">>

D_starknet ==
    <<"s", "t", "a", "r", "k", "n", "e", "t">>

D_the_x ==
    <<"t", "h", "e", ".", " ", "x">>

\* object { x: integer }, documented
ObjX ==
    Documented(Object(<<Prop(F_x, Documented(Integer, None, Some(D_the_x), Some(D_base)))>>),
               Some(D_base), None, Some(D_starknet))

\* object { extra: boolean }
ObjExtra ==
    Object(<<Prop(F_extra, Boolean)>>)

\* the names a Ref of the pool points to
RefNames ==
    {K_BASE, K_TXN, N_FELT, N_BLOCK_NUMBER}

\* shapes a schema without a global override is drawn from
Shapes ==
    {Ref(n) : n \in {K_BASE, K_TXN, N_FELT}}
    \cup {OneOf(<<Boolean, Integer>>), ObjX,
          Object(<<Prop(F_x, Integer), Prop(F_extra, OneOf(<<>>))>>),
          Object(<<Prop(F_x, Integer), Prop(F_extra, AllOf(<<>>))>>),
          Object(<<Prop(F_x, String(None)), Prop(F_extra, Object(<<>>))>>)}
    \cup {Object(<<Prop(F_x, Ref(n)), Prop(F_extra, Array(Array(Ref(n))))>>) :
            n \in {K_BASE, N_FELT, N_BLOCK_NUMBER}}
    \cup {AllOf(<<Ref(n), ObjExtra>>) : n \in {K_BASE, K_TXN}}
    \cup {AllOf(<<Ref(n)>>) : n \in {K_BASE, K_TXN, N_FELT}}
    \cup {AllOf(<<ObjX, AllOf(<<Ref(K_BASE), ObjExtra>>), Object(<<Prop(F_x, Boolean)>>)>>),
          AllOf(<<ObjX, Boolean>>)}
    \cup {String(Some(<<L_a, L_b>>)), String(Some(<<L_txn_hash, L_a, L_a>>)),
          String(Some(<<>>)), String(None)}
    \cup {Array(Integer), Boolean, Integer}

\* the entries components.schemas is drawn from
Entries ==
    {Prop(k, s) : k \in {K_BASE, K_TXN}, s \in Shapes}
    \cup {Prop(N_FELT, s) : s \in {String(None), ObjExtra, Boolean}}
    \cup {Prop(N_BLOCK_NUMBER, Integer), Prop(K_FOO, String(Some(<<L_a, L_b>>)))}

\* the maps of n entries with distinct keys, in every declaration order
RECURSIVE SpecsOfLen(_)
SpecsOfLen(n) ==
    IF n = 0 THEN {<<>>}
    ELSE UNION {{Append(s, e) : e \in {e \in Entries : ~ContainsKey(s, e.name)}} :
                  s \in SpecsOfLen(n - 1)}

SpecFamily ==
    UNION {SpecsOfLen(n) : n \in 0..MaxSchemas}

\* the nodes of a schema that flatten_schema_fields can be called on
RECURSIVE FlattenNodes(_)
FlattenNodes(schema) ==
    {schema} \cup (IF schema.kind = "AllOf"
                   THEN UNION {FlattenNodes(schema.all_of[i]) : i \in 1..Len(schema.all_of)}
                   ELSE {})

\* the schema arguments of the direct calls of flatten_schema_fields
CallNodes(schemas) ==
    UNION {FlattenNodes(schemas[i].schema) : i \in 1..Len(schemas)}
    \cup {Ref(n) : n \in RefNames}

\* the accumulators the direct calls start from
CallFields ==
    {<<>>, <<[description |-> None, name |-> F_x, type_name |-> T_bool, serde_as |-> None]>>}

--------------------------------------------------------------------------------
(* resolve_types: one loop iteration per step. *)

entity ==
    specs[idx].schema

name ==
    specs[idx].name

InLoop ==
    pc = "loop" /\ idx <= Len(specs)

NoOverride ==
    ~IsSome(get_field_type_override(name))

\* variant: the failure of the flatten_schema_fields call goes unnoticed
is_err_Never(r) ==
    FALSE

\* Result::is_err of the flatten_schema_fields call of the loop body
is_err(r) ==
    r.status = "err"

\* flatten_schema_fields(entity, specs, &mut fields) with fields = vec![]
Flattened ==
    flatten_schema_fields(entity, specs, <<>>, MaxDepth)

\* `continue`: on to the next schema, nothing pushed
Continue ==
    /\ idx' = idx + 1
    /\ UNCHANGED <<pc, specs, types, result, call, arg, ret>>

\* types.push(RustType { .. }) at the end of the loop body
Push(content) ==
    /\ types' = Append(types, RustType(name, entity, content))
    /\ idx' = idx + 1
    /\ UNCHANGED <<pc, specs, result, call, arg, ret>>

\* variant: the offending schema is skipped and the run goes on
Bail_AsSkip(msg) ==
    Continue

\* anyhow::bail! or `?`: resolve_types returns Err, its local vector is dropped
Bail(msg) ==
    /\ result' = Some(Err(msg))
    /\ pc' = "returned"
    /\ types' = <<>>
    /\ UNCHANGED <<specs, idx, call, arg, ret>>

ResolveTypesBegin ==
    /\ pc = "idle"
    /\ pc' = "loop"
    /\ idx' = 1
    /\ types' = <<>>
    /\ UNCHANGED <<specs, result, call, arg, ret>>

SkipOverride ==
    /\ InLoop
    /\ ~NoOverride
    /\ Continue

TopRefWrapper ==
    /\ InLoop /\ NoOverride
    /\ entity.kind = "Ref"
    /\ \E field_type \in {get_rust_type_for_field(entity, specs)} :
         /\ field_type.ok
         /\ Push(Wrapper(field_type.value.type_name))

TopRefFail ==
    /\ InLoop /\ NoOverride
    /\ entity.kind = "Ref"
    /\ \E field_type \in {get_rust_type_for_field(entity, specs)} :
         /\ ~field_type.ok
         /\ Bail(field_type.error)

TopOneOf ==
    /\ InLoop /\ NoOverride
    /\ entity.kind = "OneOf"
    /\ Continue

TopStruct ==
    /\ InLoop /\ NoOverride
    /\ entity.kind \in {"AllOf", "Object"}
    /\ \E r \in {Flattened} :
         /\ r.status # "overflow"
         /\ ~is_err(r)
         /\ Push(Struct(r.fields))

TopStructSkip ==
    /\ InLoop /\ NoOverride
    /\ entity.kind \in {"AllOf", "Object"}
    /\ \E r \in {Flattened} :
         /\ r.status # "overflow"
         /\ is_err(r)
    /\ Continue

\* the recursion of flatten_schema_fields exhausts the stack: the process dies
TopStructOverflow ==
    /\ InLoop /\ NoOverride
    /\ entity.kind \in {"AllOf", "Object"}
    /\ Flattened.status = "overflow"
    /\ pc' = "crashed"
    /\ UNCHANGED <<specs, idx, types, result, call, arg, ret>>

TopEnum ==
    /\ InLoop /\ NoOverride
    /\ entity.kind = "String"
    /\ IsSome(entity.enum)
    /\ Push(Enum(RustVariants(Unwrap(entity.enum))))

TopStringFail ==
    /\ InLoop /\ NoOverride
    /\ entity.kind = "String"
    /\ ~IsSome(entity.enum)
    /\ Bail("Unexpected non-enum string type when generating struct/enum")

TopOtherFail ==
    /\ InLoop /\ NoOverride
    /\ entity.kind \in {"Array", "Boolean", "Integer"}
    /\ Bail("Unexpected schema type when generating struct/enum")

ResolveTypesReturn ==
    /\ pc = "loop"
    /\ idx > Len(specs)
    /\ result' = Some(Ok(types))
    /\ pc' = "returned"
    /\ types' = <<>>
    /\ UNCHANGED <<specs, idx, call, arg, ret>>

\* a direct call flatten_schema_fields(schema, specs, &mut fields)
CallFlatten ==
    /\ pc = "idle"
    /\ \E schema \in CallNodes(specs), fields \in CallFields :
         call' = Some([schema |-> schema, fields |-> fields,
                       result |-> flatten_schema_fields(schema, specs, fields, MaxDepth)])
    /\ pc' = "called"
    /\ UNCHANGED <<specs, idx, types, result, arg, ret>>

Init ==
    /\ pc = "idle"
    /\ specs \in SpecFamily
    /\ idx = 0
    /\ types = <<>>
    /\ result = None
    /\ call = None
    /\ arg = None
    /\ ret = None

\* the steps of a run of resolve_types
Run ==
    \/ ResolveTypesBegin
    \/ SkipOverride
    \/ TopRefWrapper
    \/ TopRefFail
    \/ TopOneOf
    \/ TopStruct
    \/ TopStructSkip
    \/ TopStructOverflow
    \/ TopEnum
    \/ TopStringFail
    \/ TopOtherFail
    \/ ResolveTypesReturn

Next ==
    \/ Run
    \/ CallFlatten

Spec ==
    Init /\ [][Next]_vars

\* a run of resolve_types alone; the program is single-threaded and runs to its
\* end: a step is taken whenever one is possible
FairSpec ==
    Init /\ [][Run]_vars /\ WF_vars(Run)

--------------------------------------------------------------------------------
(* Direct calls of the text functions. *)

\* all character sequences over `alphabet` of length n
RECURSIVE StringsOfLen(_, _)
StringsOfLen(alphabet, n) ==
    IF n = 0 THEN {<<>>}
    ELSE {Append(s, c) : s \in StringsOfLen(alphabet, n - 1), c \in alphabet}

StringsUpTo(alphabet, n) ==
    UNION {StringsOfLen(alphabet, k) : k \in 0..n}

E_TransactionHash ==
    <<"T", "r", "a", "n", "s", "a", "c", "t", "i", "o", "n", "H", "a", "s", "h">>

E_Transactionhash ==
    <<"T", "r", "a", "n", "s", "a", "c", "t", "i", "o", "n", "h", "a", "s", "h">>

E_BlockWithTxs ==
    <<"B", "l", "o", "c", "k", "W", "i", "t", "h", "T", "x", "s">>

E_Blockwithtxs ==
    <<"B", "l", "o", "c", "k", "w", "i", "t", "h", "t", "x", "s">>

E_sentence ==
    <<"s", "t", "a", "r", "k", "n", "e", "t", ".", "i", "o", " ", "a", "d", "d", "r",
      "e", "s", "s", ".", " ", "s", "o", "m", "e", " ", "t", "e", "x", "t">>

E_Sentence_Some ==
    <<"S", "t", "a", "r", "k", "n", "e", "t", ".", "i", "o", " ", "a", "d", "d", "r",
      "e", "s", "s", ".", " ", "S", "o", "m", "e", " ", "t", "e", "x", "t">>

E_sentence_Some ==
    <<"s", "t", "a", "r", "k", "n", "e", "t", ".", "i", "o", " ", "a", "d", "d", "r",
      "e", "s", "s", ".", " ", "S", "o", "m", "e", " ", "t", "e", "x", "t">>

\* the names to_starknet_rs_name is called on
NameInputs ==
    StringsUpTo({"t", "T", "x", "n", "N", "_"}, MaxNameLen)
    \cup {L_txn_hash, E_TransactionHash, E_BlockWithTxs, K_BASE, N_BLOCK_NUMBER}

\* the texts to_sentence_case is called on
DocInputs ==
    StringsUpTo({"s", "S", ".", " "}, MaxDocLen) \cup {E_sentence, D_the_x}

\* a word of n letters
Word(n) ==
    [i \in 1..n |-> "x"]

\* the words the texts given to wrap_lines are made of
Words ==
    {Word(n) : n \in {0, 1, 45, 50, 96, 101}}

\* the texts of n words joined by single spaces
RECURSIVE TextsOfWords(_)
TextsOfWords(n) ==
    IF n = 1 THEN Words
    ELSE {t \o <<" ">> \o w : t \in TextsOfWords(n - 1), w \in Words}

WrapInputs ==
    [doc : UNION {TextsOfWords(n) : n \in 1..MaxWords},
     prefix_length : {0, 4, 8, 100, 101}]

InitText(inputs) ==
    /\ pc = "text"
    /\ arg \in inputs
    /\ ret = None
    /\ specs = <<>>
    /\ idx = 0
    /\ types = <<>>
    /\ result = None
    /\ call = None

Return(values) ==
    /\ ret' = values
    /\ UNCHANGED <<pc, specs, idx, types, result, call, arg>>

\* to_starknet_rs_name(arg)
CallName ==
    /\ pc = "text" /\ ret = None
    /\ Return(<<to_starknet_rs_name(arg)>>)

\* to_starknet_rs_name applied to its own result
CallNameAgain ==
    /\ pc = "text" /\ Len(ret) = 1
    /\ Return(Append(ret, to_starknet_rs_name(ret[1])))

\* to_sentence_case(arg)
CallSentenceCase ==
    /\ pc = "text" /\ ret = None
    /\ Return(<<to_sentence_case(arg)>>)

\* wrap_lines(arg.doc, arg.prefix_length)
CallWrapLines ==
    /\ pc = "text" /\ ret = None
    /\ Return(<<wrap_lines(arg.doc, arg.prefix_length)>>)

NextName ==
    \/ CallName
    \/ CallNameAgain

SpecName ==
    InitText(NameInputs) /\ [][NextName]_vars

SpecSentence ==
    InitText(DocInputs) /\ [][CallSentenceCase]_vars

SpecWrap ==
    InitText(WrapInputs) /\ [][CallWrapLines]_vars

--------------------------------------------------------------------------------
(* Vocabulary of the properties of the text functions. *)

IsUpper(c) ==
    \E i \in 1..26 : UPPER[i] = c

IsLower(c) ==
    \E i \in 1..26 : LOWER[i] = c

HasUnderscore(s) ==
    \E i \in 1..Len(s) : s[i] = "_"

\* upper-camel-case: letters only, the first one upper-case, every upper-case
\* letter followed by a lower-case one
IsPascalCase(s) ==
    /\ Len(s) > 0
    /\ IsUpper(s[1])
    /\ \A i \in 1..Len(s) : IsUpper(s[i]) \/ IsLower(s[i])
    /\ \A i \in 1..Len(s) : IsUpper(s[i]) => (i < Len(s) /\ IsLower(s[i + 1]))

\* no lower-case letter in front, no upper-case letter after it
IsCapitalisedWord(s) ==
    /\ ~HasUnderscore(s)
    /\ Len(s) > 0 => ~IsLower(s[1])
    /\ \A i \in 2..Len(s) : ~IsUpper(s[i])

StartsWith(s, p) ==
    Len(s) >= Len(p) /\ SubSeq(s, 1, Len(p)) = p

UpperCount(s) ==
    Cardinality({i \in 1..Len(s) : IsUpper(s[i])})

\* the applications of to_starknet_rs_name a state records, as <<input, output>>
NameCalls ==
    (IF Len(ret) >= 1 THEN {<<arg, ret[1]>>} ELSE {})
    \cup (IF Len(ret) >= 2 THEN {<<ret[1], ret[2]>>} ELSE {})

--------------------------------------------------------------------------------
(* C7 *)

\* C7 as stated: to_starknet_rs_name returns every PascalCase name without
\* underscores unchanged, so it is idempotent, and "txn_hash" becomes
\* "TransactionHash".
C7_Original ==
    /\ \A c \in NameCalls : IsPascalCase(c[1]) => c[2] = c[1]
    /\ Len(ret) = 2 => ret[2] = ret[1]
    /\ (arg = L_txn_hash /\ Len(ret) >= 1) => ret[1] = E_TransactionHash

\* C7 amended: to_starknet_rs_name returns a name without underscores unchanged
\* exactly when the name has no upper-case letter after its first character, no
\* lower-case letter in front and does not start with "Txn"; the inner capitals
\* of "TransactionHash" and "BlockWithTxs" are lower-cased; "txn_hash" becomes
\* "TransactionHash", and a second application turns that into "Transactionhash".
C7_Amended ==
    /\ \A c \in NameCalls :
         ~HasUnderscore(c[1]) =>
            (c[2] = c[1] <=> (IsCapitalisedWord(c[1]) /\ ~StartsWith(c[1], S_Txn)))
    /\ \A c \in NameCalls :
         /\ c[1] = E_TransactionHash => c[2] = E_Transactionhash
         /\ c[1] = E_BlockWithTxs => c[2] = E_Blockwithtxs
         /\ c[1] = L_txn_hash => c[2] = E_TransactionHash

C7_Witness ==
    /\ arg = L_txn_hash
    /\ Len(ret) = 2
    /\ ret[1] = E_TransactionHash
    /\ ret[2] # ret[1]

--------------------------------------------------------------------------------
(* C9 *)

\* C9 as stated: to_sentence_case capitalizes only the "s" of "some" in
\* "starknet.io address. some text": one upper-case letter in the result.
C9_Original ==
    (arg = E_sentence /\ ret # None) =>
        (ret[1] = E_sentence_Some /\ UpperCount(ret[1]) = 1)

\* C9 amended: to_sentence_case upper-cases the first character and every
\* character that follows a period and a space, and lower-cases all others; on
\* "starknet.io address. some text" it capitalizes the "s" of "starknet" and the
\* "s" of "some", not the "i" of ".io": two upper-case letters in the result.
C9_Amended ==
    ret # None =>
        /\ Len(ret[1]) = Len(arg)
        /\ \A i \in 1..Len(arg) :
             ret[1][i] = IF i = 1 \/ (i >= 3 /\ arg[i - 2] = "." /\ arg[i - 1] = " ")
                         THEN to_ascii_uppercase(arg[i])
                         ELSE to_ascii_lowercase(arg[i])
        /\ arg = E_sentence =>
             (ret[1] = E_Sentence_Some /\ UpperCount(ret[1]) = 2 /\ ret[1][10] = "i")

C9_Witness ==
    arg = E_sentence /\ ret = <<E_Sentence_Some>>

--------------------------------------------------------------------------------
(* C8 *)

\* the non-empty words of a text, in order
WordsOf(text) ==
    SelectSeq(Split(text), LAMBDA w : w # <<>>)

\* the non-empty words of a list of lines, in order
RECURSIVE WordsOfLines(_)
WordsOfLines(lines) ==
    IF lines = <<>> THEN <<>>
    ELSE WordsOf(Head(lines)) \o WordsOfLines(Tail(lines))

\* a line fits, or it is one word that alone is too long
LineFits(line, p) ==
    \/ p + Len(line) <= MAX_LINE_LENGTH
    \/ SpacesOf(line) = {}

\* at least one line, every line fits or is a single word, no word is split
Wrapped(lines, doc, p) ==
    /\ Len(lines) >= 1
    /\ \A i \in 1..Len(lines) : LineFits(lines[i], p)
    /\ WordsOfLines(lines) = WordsOf(doc)

\* C8 as stated: for every text and every prefix width, wrap_lines returns at
\* least one line (one empty line for the empty text), every line fits in
\* 100 - p characters unless it is a single over-long word, and no word is split.
C8_Original ==
    ret # None =>
        /\ Wrapped(ret[1], arg.doc, arg.prefix_length)
        /\ arg.doc = <<>> => ret[1] = << <<>> >>

\* C8 amended: the same, except that the empty text yields exactly one empty
\* line only for a prefix width p <= 100; for a wider prefix it yields two empty
\* lines.
C8_Amended ==
    ret # None =>
        /\ Wrapped(ret[1], arg.doc, arg.prefix_length)
        /\ arg.doc = <<>> =>
             ret[1] = IF arg.prefix_length <= MAX_LINE_LENGTH
                      THEN << <<>> >>
                      ELSE << <<>>, <<>> >>

\* a text of three words is wrapped into two lines, the second a single
\* over-long word
C8_Witness ==
    /\ ret # None
    /\ arg.prefix_length = 4
    /\ arg.doc = Word(45) \o <<" ">> \o Word(50) \o <<" ">> \o Word(101)
    /\ Len(ret[1]) = 2
    /\ Len(ret[1][1]) = 96
    /\ Len(ret[1][2]) = 101

--------------------------------------------------------------------------------
(* Vocabulary of the properties of the resolution engine. *)

Overridden(n) ==
    IsSome(get_field_type_override(n))

ReturnedOk ==
    pc = "returned" /\ Unwrap(result).ok

ReturnedErr ==
    pc = "returned" /\ ~Unwrap(result).ok

Last(s) ==
    s[Len(s)]

\* number of array levels around the innermost item of a property schema
RECURSIVE ArrayDepth(_)
ArrayDepth(schema) ==
    IF schema.kind = "Array" THEN 1 + ArrayDepth(schema.items) ELSE 0

RECURSIVE InnerItem(_)
InnerItem(schema) ==
    IF schema.kind = "Array" THEN InnerItem(schema.items) ELSE schema

\* t wrapped in Vec<...> k times
RECURSIVE VecN(_, _)
VecN(k, t) ==
    IF k = 0 THEN t
    ELSE <<"V", "e", "c", "<">> \o VecN(k - 1, t) \o <<">">>

\* the property is a Ref to a declared, overridden name, under any number of arrays
RefsOverridden(schema, schemas) ==
    /\ InnerItem(schema).kind = "Ref"
    /\ ContainsKey(schemas, InnerItem(schema).name)
    /\ Overridden(InnerItem(schema).name)

\* the field carries the override's type and hint, wrapped once per array level
CarriesOverride(schema, field) ==
    LET o == Unwrap(get_field_type_override(InnerItem(schema).name))
        k == ArrayDepth(schema)
    IN  /\ field.type_name = VecN(k, o.type_name)
        /\ field.serde_as = IF IsSome(o.serde_as) THEN Some(VecN(k, Unwrap(o.serde_as)))
                            ELSE None
        /\ field.type_name # VecN(k, to_starknet_rs_name(InnerItem(schema).name))

\* the fields pushed after the first `base` ones for the properties `props`
FieldsCarryOverrides(props, fields, base, schemas) ==
    \A i \in 1..Len(props) :
        (RefsOverridden(props[i].schema, schemas) /\ base + i <= Len(fields))
            => CarriesOverride(props[i].schema, fields[base + i])

--------------------------------------------------------------------------------
(* C1 *)

C1_Step ==
    /\ (InLoop /\ Overridden(name)) =>
            (types' = types /\ result' = result /\ pc' = "loop" /\ idx' = idx + 1)
    /\ (InLoop /\ ~Overridden(name) /\ entity.kind = "Object" /\ types' # types) =>
            /\ Last(types').content.kind = "Struct"
            /\ Len(Last(types').content.fields) = Len(entity.properties)
            /\ FieldsCarryOverrides(entity.properties, Last(types').content.fields, 0, specs)

C1_Call ==
    (IsSome(call) /\ call[1].schema.kind = "Object") =>
        /\ FieldsCarryOverrides(call[1].schema.properties, call[1].result.fields,
                                Len(call[1].fields), specs)
        /\ call[1].result.status = "ok" =>
             Len(call[1].result.fields) = Len(call[1].fields) + Len(call[1].schema.properties)

\* C1: a schema whose name has a global override is skipped by resolve_types,
\* whatever its shape, and nothing is pushed or returned for it; every object
\* property that is a Ref to such a name, under any number of arrays, gets the
\* override's type name and hint, wrapped in Vec<...> once per array level, and
\* not the PascalCase name.
C1_Theorem ==
    [][C1_Step]_vars /\ []C1_Call

\* FELT is declared as a boolean, which would fail the run, and is skipped; the
\* struct after it refers to FELT directly and under two arrays
C1_Witness ==
    /\ ReturnedOk
    /\ Len(specs) = 2
    /\ specs[1] = Prop(N_FELT, Boolean)
    /\ specs[2].name = K_BASE
    /\ Len(Unwrap(result).value) = 1
    /\ Unwrap(result).value[1].content.kind = "Struct"
    /\ Len(Unwrap(result).value[1].content.fields) = 2
    /\ Unwrap(result).value[1].content.fields[1].type_name = T_FieldElement
    /\ Unwrap(result).value[1].content.fields[2].serde_as
         = Some(VecN(2, <<"U", "f", "e", "H", "e", "x">>))

--------------------------------------------------------------------------------
(* C2 *)

\* the schema gets a descriptor: no override, no top-level oneOf, and for a
\* struct a successful flatten_schema_fields
Emitted(e, schemas) ==
    /\ ~Overridden(e.name)
    /\ e.schema.kind # "OneOf"
    /\ e.schema.kind \in {"AllOf", "Object"} =>
         flatten_schema_fields(e.schema, schemas, <<>>, MaxDepth).status = "ok"

\* the descriptor d is the one of entry e
DescriptorOf(d, e, schemas) ==
    /\ d.name = to_starknet_rs_name(e.name)
    /\ e.schema.kind = "Ref" => d.content.kind = "Wrapper"
    /\ e.schema.kind = "String" => d.content.kind = "Enum"
    /\ e.schema.kind \in {"AllOf", "Object"} =>
         d.content = [kind |-> "Struct",
                      fields |-> flatten_schema_fields(e.schema, schemas, <<>>,
                                                       MaxDepth).fields]

\* ds holds, in order, one descriptor for each emitted entry among the first n
DescriptorsOf(ds, n, schemas) ==
    LET kept == SelectSeq(SubSeq(schemas, 1, n), LAMBDA e : Emitted(e, schemas))
    IN  /\ Len(ds) = Len(kept)
        /\ \A j \in 1..Len(kept) : DescriptorOf(ds[j], kept[j], schemas)

\* C2: the vector resolve_types builds, and returns on success, holds in
\* declaration order exactly one descriptor, named to_starknet_rs_name(key), for
\* each schema without override that is no top-level oneOf and whose
\* flatten_schema_fields succeeded; a schema whose flattening failed contributes
\* nothing, not even its partial fields.
C2_Theorem ==
    /\ pc = "loop" => DescriptorsOf(types, idx - 1, specs)
    /\ ReturnedOk => DescriptorsOf(Unwrap(result).value, Len(specs), specs)

\* the first schema fails after one field was collected, the second is emitted
C2_Witness ==
    /\ ReturnedOk
    /\ Len(specs) = 2
    /\ specs[1] = Prop(K_BASE, AllOf(<<ObjX, Boolean>>))
    /\ specs[2] = Prop(K_TXN, ObjX)
    /\ flatten_schema_fields(specs[1].schema, specs, <<>>, MaxDepth).status = "err"
    /\ Len(flatten_schema_fields(specs[1].schema, specs, <<>>, MaxDepth).fields) = 1
    /\ Len(Unwrap(result).value) = 1
    /\ Unwrap(result).value[1].name = S_Transaction

--------------------------------------------------------------------------------
(* C3 *)

\* a top-level shape that fails the whole run
Fatal(e, schemas) ==
    /\ ~Overridden(e.name)
    /\ \/ e.schema.kind = "Ref" /\ ~ContainsKey(schemas, e.schema.name)
       \/ e.schema.kind = "String" /\ e.schema.enum = None
       \/ e.schema.kind \in {"Array", "Boolean", "Integer"}

\* C3: a run that returns, returns an error, and no descriptors, exactly when
\* some schema without override is a top-level Ref to an absent name, a String
\* without enum, or an Array, Boolean or Integer; an unresolved Ref met by
\* flatten_schema_fields does not fail the run.
C3_Theorem ==
    pc = "returned" =>
        /\ ~Unwrap(result).ok <=> \E i \in 1..Len(specs) : Fatal(specs[i], specs)
        /\ ~Unwrap(result).ok => ("value" \notin DOMAIN Unwrap(result) /\ types = <<>>)

\* an enum is generated first, then a top-level Ref to an absent name fails the run
C3_Witness ==
    /\ ReturnedErr
    /\ Len(specs) = 2
    /\ specs[1].schema = String(Some(<<L_a, L_b>>))
    /\ specs[2].schema.kind = "Ref"
    /\ ~ContainsKey(specs, specs[2].schema.name)

--------------------------------------------------------------------------------
(* C4 *)

\* the fields the members from i on produce, each flattened on its own
RECURSIVE OwnFields(_, _, _)
OwnFields(members, i, schemas) ==
    IF i > Len(members) THEN <<>>
    ELSE flatten_schema_fields(members[i], schemas, <<>>, MaxDepth).fields
         \o OwnFields(members, i + 1, schemas)

AllMembersFlatten(members, schemas) ==
    \A i \in 1..Len(members) :
        flatten_schema_fields(members[i], schemas, <<>>, MaxDepth).status = "ok"

\* C4: flatten_schema_fields on an AllOf whose members all flatten appends the
\* concatenation, in member order, of what each member produces on its own;
\* nothing is deduplicated or reordered.  allOf [Ref BASE, object{extra: boolean}]
\* over BASE = object{x: integer} yields x (u64) then extra (bool).
C4_Theorem ==
    /\ (IsSome(call) /\ call[1].schema.kind = "AllOf"
                     /\ AllMembersFlatten(call[1].schema.all_of, specs)) =>
            call[1].result = Flat("ok", call[1].fields
                                        \o OwnFields(call[1].schema.all_of, 1, specs))
    /\ (ReturnedOk /\ specs = <<Prop(K_BASE, ObjX),
                                Prop(K_TXN, AllOf(<<Ref(K_BASE), ObjExtra>>))>>) =>
            LET fs == Unwrap(result).value[2].content.fields
            IN  /\ Len(fs) = 2
                /\ fs[1].name = F_x /\ fs[1].type_name = T_u64
                /\ fs[2].name = F_extra /\ fs[2].type_name = T_bool

\* nested AllOf, a Ref member and a repeated field name, on a non-empty accumulator
C4_Witness ==
    /\ IsSome(call)
    /\ call[1].schema = AllOf(<<ObjX, AllOf(<<Ref(K_BASE), ObjExtra>>),
                                Object(<<Prop(F_x, Boolean)>>)>>)
    /\ Len(call[1].fields) = 1
    /\ call[1].result.status = "ok"
    /\ Len(call[1].result.fields) = 5
    /\ call[1].result.fields[2].name = F_x /\ call[1].result.fields[2].type_name = T_u64
    /\ call[1].result.fields[3].name = F_x
    /\ call[1].result.fields[4].name = F_extra
    /\ call[1].result.fields[5].name = F_x /\ call[1].result.fields[5].type_name = T_bool

--------------------------------------------------------------------------------
(* C5 *)

\* the schema at the end of the chain of References that starts at `node`:
\* None if a name of the chain is absent or the chain takes more than `hops` hops
RECURSIVE ChainEnd(_, _, _)
ChainEnd(node, schemas, hops) ==
    IF node.kind # "Ref" THEN Some(node)
    ELSE IF hops = 0 \/ ~ContainsKey(schemas, node.name) THEN None
    ELSE ChainEnd(Get(schemas, node.name), schemas, hops - 1)

\* C5: flatten_schema_fields on a Ref whose chain of References ends, without a
\* cycle, at schema S returns what it returns on S itself from the same
\* accumulator: the same fields on success, a failure when S fails; overrides of
\* the names on the chain play no part.
C5_Theorem ==
    (IsSome(call) /\ call[1].schema.kind = "Ref"
                  /\ IsSome(ChainEnd(call[1].schema, specs, Len(specs)))) =>
        call[1].result = flatten_schema_fields(
                            Unwrap(ChainEnd(call[1].schema, specs, Len(specs))),
                            specs, call[1].fields, MaxDepth)

\* Ref BASE -> BASE = Ref TXN -> TXN = object{x}
C5_Witness ==
    /\ IsSome(call)
    /\ call[1].schema = Ref(K_BASE)
    /\ ContainsKey(specs, K_BASE) /\ Get(specs, K_BASE) = Ref(K_TXN)
    /\ ContainsKey(specs, K_TXN) /\ Get(specs, K_TXN) = ObjX
    /\ Len(call[1].fields) = 1
    /\ call[1].result.status = "ok"
    /\ Len(call[1].result.fields) = 2
    /\ call[1].result.fields[2].name = F_x

--------------------------------------------------------------------------------
(* C6 *)

\* d is the Enum descriptor of schema key with the literals ls
EnumOf(d, key, ls) ==
    /\ d.name = to_starknet_rs_name(key)
    /\ d.content.kind = "Enum"
    /\ Len(d.content.variants) = Len(ls)
    /\ \A i \in 1..Len(ls) :
         /\ d.content.variants[i].name = to_starknet_rs_name(ls[i])
         /\ d.content.variants[i].serde_name = ls[i]

C6_Step ==
    (InLoop /\ ~Overridden(name) /\ entity.kind = "String" /\ entity.enum # None) =>
        /\ Len(types') = Len(types) + 1
        /\ SubSeq(types', 1, Len(types)) = types
        /\ EnumOf(Last(types'), name, Unwrap(entity.enum))
        /\ pc' = "loop"

C6_Returned ==
    ReturnedOk =>
        /\ \A i \in 1..Len(specs) :
             (~Overridden(specs[i].name) /\ specs[i].schema.kind = "String") =>
                Cardinality({j \in 1..Len(Unwrap(result).value) :
                               Unwrap(result).value[j].name
                                   = to_starknet_rs_name(specs[i].name)}) = 1
        /\ specs = <<Prop(K_FOO, String(Some(<<L_a, L_b>>)))>> =>
             /\ Len(Unwrap(result).value) = 1
             /\ Unwrap(result).value[1].name = <<"F", "o", "o">>
             /\ Unwrap(result).value[1].content.kind = "Enum"
             /\ Len(Unwrap(result).value[1].content.variants) = 2
             /\ Unwrap(result).value[1].content.variants[1].serde_name = <<"a">>
             /\ Unwrap(result).value[1].content.variants[2].serde_name = <<"b">>

\* C6: for a top-level String schema with an enum list and no override,
\* resolve_types pushes exactly one Enum descriptor named
\* to_starknet_rs_name(key), with one variant per literal in list order, named
\* to_starknet_rs_name(literal) and with the literal itself as wire value.
C6_Theorem ==
    [][C6_Step]_vars /\ []C6_Returned

\* the literal txn_hash becomes the variant TransactionHash with wire value txn_hash
C6_Witness ==
    /\ ReturnedOk
    /\ Len(specs) = 1
    /\ specs[1] = Prop(K_TXN, String(Some(<<L_txn_hash, L_a, L_a>>)))
    /\ Len(Unwrap(result).value) = 1
    /\ Unwrap(result).value[1].name = S_Transaction
    /\ Len(Unwrap(result).value[1].content.variants) = 3
    /\ Unwrap(result).value[1].content.variants[1].name = E_TransactionHash
    /\ Unwrap(result).value[1].content.variants[1].serde_name = L_txn_hash

--------------------------------------------------------------------------------
(* C10 *)

\* the names the Refs in flattening position of a schema point to
RefTargets(node) ==
    {m.name : m \in {m \in FlattenNodes(node) : m.kind = "Ref"}}

\* the Ref-target and AllOf-member edges that leave the named schema k
Successors(k, schemas) ==
    IF ContainsKey(schemas, k) THEN RefTargets(Get(schemas, k)) ELSE {}

\* the names reached from the set `names` in at most n further steps
RECURSIVE ReachN(_, _, _)
ReachN(names, schemas, n) ==
    IF n = 0 THEN names
    ELSE ReachN(names \cup UNION {Successors(k, schemas) : k \in names}, schemas, n - 1)

OnCycle(k, schemas) ==
    k \in ReachN(Successors(k, schemas), schemas, Len(schemas))

\* no named schema reaches itself
Acyclic(schemas) ==
    \A i \in 1..Len(schemas) : ~OnCycle(schemas[i].name, schemas)

\* no cycle can be reached from the node
AcyclicFrom(node, schemas) ==
    \A k \in ReachN(RefTargets(node), schemas, Len(schemas)) : ~OnCycle(k, schemas)

NoTopLevelAllOf(schemas) ==
    \A i \in 1..Len(schemas) : schemas[i].schema.kind # "AllOf"

Max(S) ==
    IF S = {} THEN 0 ELSE CHOOSE m \in S : \A n \in S : n <= m

\* depth of the reference/composition graph below a node (the node included)
RECURSIVE GraphDepth(_, _)
GraphDepth(node, schemas) ==
    1 + (IF node.kind = "Ref" /\ ContainsKey(schemas, node.name)
         THEN Let(Get(schemas, node.name), LAMBDA target : GraphDepth(target, schemas))
         ELSE IF node.kind = "AllOf"
         THEN Max({GraphDepth(node.all_of[i], schemas) : i \in 1..Len(node.all_of)})
         ELSE 0)

\* the traversal of flatten_schema_fields with the schemas in progress recorded:
\* "loop" when it re-enters one of them, else "ok" or "err"
RECURSIVE Traversal(_, _, _)
RECURSIVE TraversalAll(_, _, _, _)
TraversalAll(members, i, schemas, visiting) ==
    IF i > Len(members) THEN "ok"
    ELSE Let(Traversal(members[i], schemas, visiting),
             LAMBDA t : IF t # "ok" THEN t
                        ELSE Let(i + 1, LAMBDA j :
                                 TraversalAll(members, j, schemas, visiting)))

Traversal(node, schemas, visiting) ==
    CASE node.kind = "Ref" ->
            IF ~ContainsKey(schemas, node.name) THEN "err"
            ELSE IF node.name \in visiting THEN "loop"
            ELSE Let(<<Get(schemas, node.name), visiting \cup {node.name}>>,
                     LAMBDA a : Traversal(a[1], schemas, a[2]))
      [] node.kind = "AllOf" -> TraversalAll(node.all_of, 1, schemas, visiting)
      [] node.kind = "Object" ->
            IF \A i \in 1..Len(node.properties) :
                   get_rust_type_for_field(node.properties[i].schema, schemas).ok
            THEN "ok" ELSE "err"
      [] OTHER -> "err"

\* a run over an acyclic specification, or over one without top-level AllOf
\* (Ref-to-Ref loops and cycles through object properties included), returns
C10_Terminates ==
    (pc = "loop" /\ (Acyclic(specs) \/ NoTopLevelAllOf(specs))) ~> (pc = "returned")

C10_State ==
    /\ (Acyclic(specs) \/ NoTopLevelAllOf(specs)) => pc # "crashed"
    /\ pc = "crashed" => result = None
    /\ (InLoop /\ entity.kind \in {"AllOf", "Object"} /\ AcyclicFrom(entity, specs)) =>
            flatten_schema_fields(entity, specs, <<>>, GraphDepth(entity, specs)).status
                # "overflow"
    /\ (InLoop /\ entity.kind \in {"AllOf", "Object"}) =>
            Flattened.status
                = IF Traversal(entity, specs, {name}) = "loop" THEN "overflow"
                  ELSE Traversal(entity, specs, {name})

C10_Step ==
    /\ (InLoop /\ ~Overridden(name) /\ entity.kind \in {"AllOf", "Object"}
               /\ Traversal(entity, specs, {name}) = "loop") =>
            (pc' = "crashed" /\ result' = None)
    /\ pc = "crashed" => pc' = "crashed"

\* C10: over a specification in which no named schema reaches itself through
\* Ref-target and AllOf-member edges resolve_types returns, and the recursion of
\* flatten_schema_fields is no deeper than the reference/composition graph; a
\* run never recurses through get_rust_type_for_field, so top-level Ref-to-Ref
\* loops and cycles through object properties return too; a
\* flatten_schema_fields traversal that re-enters a schema it is in recurses
\* until the stack is exhausted and returns neither a result nor an error.
C10_Theorem ==
    C10_Terminates /\ []C10_State /\ [][C10_Step]_vars

\* A = allOf [Ref A]: the run dies in the recursion
C10_Witness ==
    /\ pc = "crashed"
    /\ specs = <<Prop(K_BASE, AllOf(<<Ref(K_BASE)>>))>>
    /\ result = None

====
